---- MODULE Spec2Model ----
(***************************************************************************)
(* Model of the WattBox device-state core of homebridge-wattbox            *)
(* (src/src/wattbox.ts, second revision, lines 225-674): the status cache, *)
(* the shared lock, outlet commands, and the subscription-driven poll      *)
(* loops; of the outlet accessory that subscribes to them                  *)
(* (src/src/platformAccessory.ts, second revision, lines 87-187); of the   *)
(* disable switch (src/unnamed/part_004); and of the platform's discovery  *)
(* (src/src/platform.ts, second revision, lines 75-162).  Time is          *)
(* discrete and advances in steps of TickMs; everything JavaScript runs    *)
(* between two I/O events or timers is one action.                         *)
(***************************************************************************)
EXTENDS Integers, Sequences, FiniteSets, TLC

\* ------------------------------------------------------------------ bounds
NumUsers == 2        \* direct callers of getStatus()/commandOutlet()
NumListeners == 2    \* callbacks that subscribe() is called with
MaxLoops == 2        \* poll loops alive at once
MaxCommands == 2     \* commands that succeed in one behaviour
MaxConfigTtl == 61   \* largest outletStatusCacheTtl tried, besides 120
MaxOutlets == 3      \* most outlets in a status document that is decoded
MaxSites == 3        \* most auto-reboot sites in a status document
MaxSwitchTicks == 4  \* longest timeout of the disable switch, in clock steps

\* ------------------------------------------------------- program constants
OUTLET_STATUS_CACHE_TTL_MS_DEFAULT == 15 * 1000
OUTLET_STATUS_CACHE_TTL_MS_MIN == 5 * 1000
OUTLET_STATUS_CACHE_TTL_MS_MAX == 60 * 1000
OUTLET_STATUS_POLL_INTERVAL_MS_DEFAULT == 15 * 1000
OUTLET_STATUS_POLL_INTERVAL_MS_MIN == 5 * 1000
OUTLET_STATUS_POLL_INTERVAL_MS_MAX == 60 * 1000
OUTLET_STATUS_LOCK == "OUTLET_STATUS"

\* enum WattBoxOutletStatus
UNKNOWN == -1
OFF == 0
ON == 1

\* The step of the discrete clock.
TickMs == OUTLET_STATUS_POLL_INTERVAL_MS_MIN

Min(a, b) == IF a < b THEN a ELSE b
Max(a, b) == IF a > b THEN a ELSE b

\* An optional config number: [set |-> FALSE] is `undefined`.
Unset == [set |-> FALSE, v |-> 0]
Num(n) == [set |-> TRUE, v |-> n]

VARIABLES
    config,     \* WattBoxConfig: outletStatusCacheTtl, outletStatusPollInterval
    epoch,      \* the device: number of commands it has executed and acknowledged
    lock,       \* AsyncLock: key -> [owner, queue]
    cache,      \* the memory store's entry under OUTLET_STATUS_CACHE_KEY
    call,       \* per caller: the getStatus()/commandOutlet() call it has open
    batch,      \* history: the current group of concurrent cold getStatus() calls
    lastFetch,  \* history: time since the last successful status fetch
    seen,       \* history: the newest snapshot that getStatus() has returned
    messages,   \* PubSub: the topics in insertion order, each with its tokens
    polls,      \* per poll loop: its timer or its tick in progress
    deliveries, \* PubSub: published values whose setTimeout(deliver, 0) is pending
    inbox,      \* per listener: what its callback has been called with
    device,     \* the device: the status of its outlets before any command
    accessory,  \* per outlet accessory: its status field and its last getOn()
    response,   \* the device: its status document
    decoded,    \* the outcome of the last decoding of a status document
    switch,     \* the disable-control switch: its flag, characteristic, timers
    platform    \* the platform: its outlet filter and its accessories

coreVars == <<config, epoch, lock, cache, call, batch, lastFetch, seen>>
pubsubVars == <<messages, polls, deliveries, inbox>>
accessoryVars == <<device, accessory>>
documentVars == <<response, decoded>>
hostVars == <<switch, platform>>
vars == <<config, epoch, lock, cache, call, batch, lastFetch, seen,
          messages, polls, deliveries, inbox, device, accessory,
          response, decoded, switch, platform>>

\* ---------------------------------------------------------------- callers
\* Outlet ids are strings of digits; these two are the ones subscribed to.
OutletIds == {<<"1">>, <<"1", "0">>}

User(i) == [kind |-> "user", id |-> i]
Loop(k) == [kind |-> "poll", id |-> k]
Setter(t) == [kind |-> "set", id |-> t]
NoProc == [kind |-> "none", id |-> 0]
Users == {User(i) : i \in 1..NumUsers}
\* The direct callers and one more, so that two calls can wait for the lock.
Callers == {User(i) : i \in 1..NumUsers + 1}
Loops == {Loop(k) : k \in 1..MaxLoops}
Listeners == 1..NumListeners
Procs == DOMAIN call

\* ------------------------------------------------------------ configuration
\* get outletStatusCacheTtlMs (config value in seconds).
outletStatusCacheTtlMs(cfg) ==
    LET given == IF cfg.outletStatusCacheTtl.set THEN cfg.outletStatusCacheTtl.v ELSE 0
        ms == IF given * 1000 # 0 THEN given * 1000 ELSE OUTLET_STATUS_CACHE_TTL_MS_DEFAULT
    IN  Max(OUTLET_STATUS_CACHE_TTL_MS_MIN, Min(OUTLET_STATUS_CACHE_TTL_MS_MAX, ms))

pollIntervalMsOrDefault(cfg) ==
    LET given == IF cfg.outletStatusPollInterval.set /\ cfg.outletStatusPollInterval.v # 0
                 THEN cfg.outletStatusPollInterval.v
                 ELSE OUTLET_STATUS_POLL_INTERVAL_MS_DEFAULT
    IN  Max(OUTLET_STATUS_POLL_INTERVAL_MS_MIN, Min(OUTLET_STATUS_POLL_INTERVAL_MS_MAX, given))

\* get pollIntervalMs (config value in milliseconds).
pollIntervalMs(cfg) ==
    LET given == IF cfg.outletStatusPollInterval.set
                 THEN cfg.outletStatusPollInterval.v
                 ELSE OUTLET_STATUS_POLL_INTERVAL_MS_DEFAULT
    IN  Max(OUTLET_STATUS_POLL_INTERVAL_MS_MIN, Min(OUTLET_STATUS_POLL_INTERVAL_MS_MAX, given))

\* The configurations the behaviours are explored under.
Configs ==
    {[outletStatusCacheTtl |-> Num(5), outletStatusPollInterval |-> Num(5000)]}

\* The configurations that vary outletStatusCacheTtl (seconds): not set, or an
\* integer below, inside or above the allowed range.
TtlConfigs ==
    {[outletStatusCacheTtl |-> t, outletStatusPollInterval |-> Unset] :
        t \in {Unset} \cup {Num(v) : v \in (-1..MaxConfigTtl) \cup {120}}}

\* The configurations that vary outletStatusPollInterval (milliseconds).
PollIntervalConfigs ==
    {[outletStatusCacheTtl |-> Unset, outletStatusPollInterval |-> i] :
        i \in {Unset} \cup {Num(v) : v \in {-1, 0, 1, 4999, 5000, 5001, 15000,
                                              59999, 60000, 60001, 120000}}}

\* --------------------------------------------------------- status document
\* Text is a sequence of characters.
Digits == <<"0", "1", "2", "3", "4", "5", "6", "7", "8", "9">>
IsDigit(c) == \E d \in 1..10 : Digits[d] = c
DigitValue(c) == (CHOOSE d \in 1..10 : Digits[d] = c) - 1

\* `${n}` for a number n >= 0.
RECURSIVE Decimal(_)
Decimal(n) ==
    IF n < 10 THEN <<Digits[n + 1]>>
    ELSE Decimal(n \div 10) \o <<Digits[(n % 10) + 1]>>

\* String.prototype.trim
RECURSIVE trim(_)
trim(text) ==
    IF text = <<>> THEN text
    ELSE IF Head(text) = " " THEN trim(Tail(text))
    ELSE IF text[Len(text)] = " " THEN trim(SubSeq(text, 1, Len(text) - 1))
    ELSE text

\* parseInt(text): the number written by the digits that follow the leading
\* blanks; NaN when there is none, and for `undefined`.  NaN is the one
\* negative value, `undefined` the one text that is no sequence of characters.
NaN == -2
undefined == <<"undefined">>
RECURSIVE ParseDigits(_, _)
ParseDigits(text, acc) ==
    IF text = <<>> \/ ~IsDigit(Head(text)) THEN acc
    ELSE ParseDigits(Tail(text), 10 * acc + DigitValue(Head(text)))
parseInt(text) ==
    IF text = undefined THEN NaN
    ELSE LET t == trim(text) IN
         IF t = <<>> \/ ~IsDigit(Head(t)) THEN NaN ELSE ParseDigits(t, 0)

\* value.includes(',') and value.split(',')
includes(text, c) == \E i \in 1..Len(text) : text[i] = c
RECURSIVE split(_, _)
split(text, c) ==
    IF ~includes(text, c) THEN <<text>>
    ELSE LET i == CHOOSE k \in 1..Len(text) :
                      text[k] = c /\ \A j \in 1..(k - 1) : text[j] # c
         IN  <<SubSeq(text, 1, i - 1)>> \o split(SubSeq(text, i + 1, Len(text)), c)

\* The parser's value processor: text with a comma becomes the array of its
\* trimmed parts, any other text stays a string.
valueProcessor(value) ==
    IF includes(value, ",")
    THEN LET parts == split(value, ",") IN
         [array |-> TRUE, text |-> <<>>,
          items |-> [i \in DOMAIN parts |-> trim(parts[i])]]
    ELSE [array |-> FALSE, text |-> value, items |-> <<>>]

\* value[i] (0-based) of a parsed element: an item of an array, a character
\* of a string, undefined past the end.
At(value, i) ==
    IF value.array
    THEN IF i + 1 <= Len(value.items) THEN value.items[i + 1] ELSE undefined
    ELSE IF i + 1 <= Len(value.text) THEN <<value.text[i + 1]>> ELSE undefined

\* The device writes a list as its items separated by `sep`.
RECURSIVE Join(_, _)
Join(items, sep) ==
    IF items = <<>> THEN <<>>
    ELSE IF Len(items) = 1 THEN items[1]
    ELSE items[1] \o sep \o Join(Tail(items), sep)

ListFields ==
    {"site_ip", "connect_status", "site_lost",
     "outlet_name", "outlet_status", "outlet_method"}

\* The element `request` of the document the parser returns for the lists
\* `lists` of the device.
Request(lists) == [f \in ListFields |-> valueProcessor(Join(lists[f], lists.sep))]

\* The status document of a device: its lists, and what the parser reads.
Document(lists) == [lists |-> lists, request |-> Request(lists)]

ConnectionsFilteredFirst(request) ==
    LET kept == SelectSeq(request.site_ip.items, LAMBDA ip : ip # <<"0">>)
    IN  [i \in 1..Len(kept) |->
            [targetIp |-> kept[i],
             responseTimeMs |-> parseInt(At(request.connect_status, i - 1)),
             timeoutPercent |-> parseInt(At(request.site_lost, i - 1))]]

\* autoReboot.connections of getStatus's fetch function.
Connections(request) ==
    LET zipped == [i \in 1..Len(request.site_ip.items) |->
                     [targetIp |-> request.site_ip.items[i],
                      responseTimeMs |-> parseInt(At(request.connect_status, i - 1)),
                      timeoutPercent |-> parseInt(At(request.site_lost, i - 1))]]
    IN  SelectSeq(zipped, LAMBDA c : c.targetIp # <<"0">>)

\* outlets of getStatus's fetch function.
Outlets(request) ==
    [i \in 1..Len(request.outlet_name.items) |->
        [id |-> Decimal(i),
         name |-> request.outlet_name.items[i],
         status |-> parseInt(At(request.outlet_status, i - 1)),
         mode |-> parseInt(At(request.outlet_method, i - 1))]]

\* tried: a document has been decoded; ok: the decoding gave a snapshot.
NoStatus == [tried |-> FALSE, ok |-> FALSE, connections |-> <<>>, outlets |-> <<>>]

\* Whether the fetch function of getStatus returns for `request`: `.map` of an
\* element that is not an array is a TypeError.
Decodes(request) == request.site_ip.array /\ request.outlet_name.array

\* The fetch function of getStatus on `request`.
DecodeStatus(request) ==
    IF ~Decodes(request)
    THEN [NoStatus EXCEPT !.tried = TRUE]
    ELSE [tried |-> TRUE, ok |-> TRUE,
          connections |-> Connections(request), outlets |-> Outlets(request)]

\* The lists of a device with `n` outlets, all in the state `status`.
Lists(n, status) ==
    [sep |-> <<",">>,
     site_ip |-> <<<<"0">>, <<"0">>>>,
     connect_status |-> <<<<"0">>, <<"0">>>>,
     site_lost |-> <<<<"0">>, <<"0">>>>,
     outlet_name |-> [i \in 1..n |-> <<"A">>],
     outlet_status |-> [i \in 1..n |-> status],
     outlet_method |-> [i \in 1..n |-> <<"1">>]]

\* The documents that vary the outlet lists: n names with n statuses and n
\* modes, written with either separator.
OutletDocuments ==
    UNION {{[Lists(n, <<"0">>) EXCEPT !.sep = sep, !.outlet_name = names,
                                      !.outlet_status = statuses,
                                      !.outlet_method = modes] :
               sep \in {<<",">>, <<",", " ">>},
               names \in [1..n -> {<<"A">>, <<"B">>}],
               statuses \in [1..n -> {<<"0">>, <<"1">>}],
               modes \in [1..n -> {<<"0">>, <<"2">>}]} : n \in 1..MaxOutlets}

\* The documents that vary the auto-reboot lists: n addresses ("0": no site)
\* with n response times and n timeout percentages.
SiteDocuments ==
    UNION {{[Lists(2, <<"0">>) EXCEPT !.site_ip = ips, !.connect_status = times,
                                      !.site_lost = lost] :
               ips \in [1..n -> {<<"0">>, <<"a">>}],
               times \in [1..n -> {<<"7">>, <<"2", "3">>}],
               lost \in [1..n -> {<<"0">>, <<"5", "0">>}]} : n \in 1..MaxSites}

\* ------------------------------------------------------------- transport
\* What the socket delivers for one request: an 'error' event, or 'end' with
\* the bytes received (a complete HTTP response or not, its status code, and
\* the kind of body).
Response(socketError, complete, statusCode, body) ==
    [socketError |-> socketError, complete |-> complete,
     statusCode |-> statusCode, body |-> body]

Responses ==
    {Response(TRUE, FALSE, 0, "empty"), Response(FALSE, FALSE, 0, "empty")}
    \cup {Response(FALSE, TRUE, s, b) :
            s \in {200, 299, 300, 401}, b \in {"status-xml", "empty", "garbage"}}

\* xmlRequest: "" when the promise resolves, else the kind of error it rejects with.
xmlRequest(r) ==
    IF r.socketError THEN "socket"
    ELSE IF ~r.complete THEN "http-parse"
    ELSE IF ~(r.statusCode >= 200 /\ r.statusCode < 300) THEN "http-status"
    ELSE IF r.body = "garbage" THEN "xml-parse"
    ELSE ""

\* The body "status-xml" is the document of the device's lists.
Decoding(r) == xmlRequest(r) = "" /\ r.body = "status-xml"

\* The fetch function passed to cache.wrap: xmlRequest, then the decoding of
\* `request`; an empty document parses to null, which cannot be destructured.
FetchStatus(r) ==
    IF xmlRequest(r) # "" THEN xmlRequest(r)
    ELSE IF r.body # "status-xml" THEN "decode"
    ELSE IF ~Decodes(response.request) THEN "decode"
    ELSE ""

\* ------------------------------------------------------------------ results
\* ver: the snapshot, named by the number of commands the device had executed
\* when it was fetched; age: the time since it was fetched; status: the HTTP
\* status the call's own command request was answered with (0: none).
NoRes == [ok |-> FALSE, err |-> "", ver |-> -1, age |-> -1, status |-> 0]
Ok(ver, age) == [NoRes EXCEPT !.ok = TRUE, !.ver = ver, !.age = age]
Err(e) == [NoRes EXCEPT !.err = e]
StatusCode(r) == IF r.socketError \/ ~r.complete THEN 0 ELSE r.statusCode

\* -------------------------------------------------------------------- cache
NoEntry == [present |-> FALSE, ver |-> -1, age |-> 0, ttl |-> 0]
Entry(ver, ttl) == [present |-> TRUE, ver |-> ver, age |-> 0, ttl |-> ttl]

IsStaleNever(e) == FALSE

\* lru-cache: an entry is stale once more than its ttl has passed.
IsStale(e) == e.ttl # 0 /\ e.age > e.ttl

CacheHitNever(e) == FALSE

\* store.get(key) # undefined
CacheHit(e) == e.present /\ ~IsStale(e)

CacheAfterCommandKept(e) == e

\* commandOutlet: the cache entry after the command's request succeeded.
CacheAfterCommand(e) == NoEntry

CacheAfterCommandErrorDeleted(e) == NoEntry

\* commandOutlet: the cache entry after the command's request failed (the
\* rejection skips cache.del).
CacheAfterCommandError(e) == e

CacheAfterFetchErrorStored(e, err) == Entry(-1, OUTLET_STATUS_CACHE_TTL_MS_MIN)

\* cache.wrap: the cache entry after the fetch function failed.
CacheAfterFetchError(e, err) == e

\* --------------------------------------------------------------------- lock
\* The key getStatus() and commandOutlet() pass to lock.acquire.
GetStatusLockKey == OUTLET_STATUS_LOCK
CommandOutletLockKeyOwn == "COMMAND_OUTLET"
CommandOutletLockKey == OUTLET_STATUS_LOCK
LockKeys == {GetStatusLockKey, CommandOutletLockKey}
KeyOf(op) == IF op = "get" THEN GetStatusLockKey ELSE CommandOutletLockKey

Free == [owner |-> NoProc, queue |-> <<>>]
IsLockedNever(lk, k) == FALSE
IsLocked(lk, k) == lk[k].owner # NoProc

\* lock.acquire(key, fn): run fn now when the key is free, else queue it.
Acquire(lk, k, p) ==
    IF IsLocked(lk, k)
    THEN [lk EXCEPT ![k].queue = Append(@, p)]
    ELSE [lk EXCEPT ![k].owner = p]

\* The lock's `done`: hand the key to the head of the queue, if any.
Release(lk, k) ==
    IF lk[k].queue = <<>>
    THEN [lk EXCEPT ![k] = Free]
    ELSE [lk EXCEPT ![k] = [owner |-> Head(lk[k].queue), queue |-> Tail(lk[k].queue)]]

\* --------------------------------------------------------------------- calls
\* st: idle, queued (waiting for the lock), run (holds the lock, cache.wrap not
\* yet evaluated), inflight (its request is at the device), done.
\* from: the number of commands the device had executed when the call's
\* request was sent.
\* tries: the number of requests the call has sent to the device.
\* sent, early, after, followed, minVer are history: whether the call sent a
\* request, whether it did so within a ttl of the last successful fetch with
\* no successful command in between, the callers whose command was
\* open when the call was made, whether one of those has succeeded since, and
\* the number of commands, made before the call, that have succeeded.
Idle ==
    [op |-> "none", st |-> "idle", res |-> NoRes, sent |-> FALSE,
     tries |-> 0, early |-> FALSE, from |-> 0,
     after |-> {}, followed |-> FALSE, minVer |-> 0]

\* The state in which fn starts once it has the lock: getStatus awaits the
\* cache first; commandOutlet opens its socket at once.
Started(op) == IF op = "get" THEN "run" ELSE "inflight"

OpenCommands == {q \in Procs : call[q].op = "cmd" /\ call[q].st \in {"queued", "inflight"}}
Pending == {q \in Procs : call[q].st \in {"queued", "run", "inflight"}}
PendingGets == {q \in Pending : call[q].op = "get"}

\* The calls after `p` finished with `res` and the lock passed to `next`.
Finished(c, p, res, next) ==
    [q \in Procs |->
        IF q = p THEN [c[q] EXCEPT !.st = "done", !.res = res]
        ELSE IF q = next THEN [c[q] EXCEPT !.st = Started(c[q].op),
                                           !.sent = (c[q].op = "cmd"),
                                           !.tries = IF c[q].op = "cmd" THEN 1 ELSE 0]
        ELSE c[q]]

NextOwner(lk, k) == IF lk[k].queue = <<>> THEN NoProc ELSE Head(lk[k].queue)

\* members: the calls of the batch; open: those not finished; reqs: status
\* requests they sent; first: the outcome of the first to finish (NoRes before);
\* same: every outcome so far equals it.
NoBatch == [members |-> {}, open |-> {}, reqs |-> 0, first |-> NoRes, same |-> TRUE,
            sealed |-> FALSE, void |-> FALSE]
\* known: a status fetch has succeeded; age: time since it did; cmd: a command
\* has succeeded since.
NoFetch == [known |-> FALSE, age |-> 0, cmd |-> FALSE]
\* known: getStatus() has returned a snapshot; ver, age: the one fetched last
\* among those returned, and the time since its fetch; again: a snapshot was
\* returned after another one had been.
NoSeen == [known |-> FALSE, ver |-> -1, age |-> 0, again |-> FALSE]

\* ------------------------------------------------------------------ PubSub
PUB_SUB_OUTLET_TOPIC == <<"outlet">>
outletStatusTopic(outletId) == PUB_SUB_OUTLET_TOPIC \o <<".">> \o outletId

\* m.indexOf(topic) === 0
StartsWith(m, topic) == Len(topic) <= Len(m) /\ SubSeq(m, 1, Len(topic)) = topic

HasTopic(msgs, topic) == \E i \in 1..Len(msgs) : msgs[i].topic = topic
TokensOf(msgs, topic) ==
    IF HasTopic(msgs, topic)
    THEN (CHOOSE m \in {msgs[i] : i \in 1..Len(msgs)} : m.topic = topic).subs
    ELSE {}

\* PubSub.subscribe(topic, func): the token is the listener.
PubSubSubscribe(msgs, topic, token) ==
    IF HasTopic(msgs, topic)
    THEN [i \in 1..Len(msgs) |->
             IF msgs[i].topic = topic THEN [msgs[i] EXCEPT !.subs = @ \cup {token}]
             ELSE msgs[i]]
    ELSE Append(msgs, [topic |-> topic, subs |-> {token}])

\* PubSub.unsubscribe(token): the token is deleted, the topic's key stays.
PubSubUnsubscribe(msgs, token) ==
    [i \in 1..Len(msgs) |-> [msgs[i] EXCEPT !.subs = @ \ {token}]]

\* PubSub.countSubscriptions(topic): the tokens of the first key, in insertion
\* order, that starts with `topic`.
countSubscriptions(msgs, topic) ==
    LET hits == {i \in 1..Len(msgs) : StartsWith(msgs[i].topic, topic)} IN
    IF hits = {} THEN 0
    ELSE Cardinality(msgs[CHOOSE i \in hits : \A j \in hits : i <= j].subs)

\* PubSub.publish(topic, data): nothing is scheduled without a subscriber.
PubSubPublish(queue, msgs, topic, data) ==
    IF TokensOf(msgs, topic) # {}
    THEN Append(queue, [topic |-> topic, data |-> data])
    ELSE queue

Subscribed == UNION {messages[i].subs : i \in 1..Len(messages)}

\* ---------------------------------------------------------------- poll loops
\* A loop is the closure `poll` of one subscribe() call, with the outletId and
\* topic it captured.
Off == [st |-> "off", rem |-> 0, outlet |-> <<>>]
Timer(outletId, ms) == [st |-> "timer", rem |-> ms, outlet |-> outletId]
ActiveLoops(outletId) ==
    {l \in DOMAIN polls : polls[l].st # "off" /\ polls[l].outlet = outletId}
FreeSlots == {k \in 1..MaxLoops : polls[Loop(k)].st = "off"}

TimersDue ==
    \/ deliveries # <<>>
    \/ \E l \in DOMAIN polls : polls[l].st = "timer" /\ polls[l].rem = 0
    \/ 0 \in switch.timers

\* got: the callback has been called; data: what it was last called with;
\* threw: that call threw.
NoData == [id |-> <<>>, ver |-> -1]
Empty == [got |-> FALSE, data |-> NoData, threw |-> FALSE]

\* The listeners whose callback may throw.
FaultyListeners == {1}

ReceiversByPrefix(msgs, topic) ==
    UNION {msgs[i].subs : i \in {j \in 1..Len(msgs) : StartsWith(msgs[j].topic, topic)}}

ReceiversOne(msgs, topic) ==
    IF TokensOf(msgs, topic) = {} THEN {} ELSE {CHOOSE t \in TokensOf(msgs, topic) : TRUE}

\* PubSub's delivery: the subscribers of the topic when the delivery runs.
Receivers(msgs, topic) == TokensOf(msgs, topic)

InvokedUntilThrow(receivers, throwers) ==
    IF throwers = {} THEN receivers ELSE throwers

\* The callbacks that get called in one delivery when those in `throwers`
\* throw: the wrapper subscribe() registers is an async function, a throw of
\* func rejects the promise it returns and the delivery goes on.
Invoked(receivers, throwers) == receivers

OutletOfOrFirst(res, outletId) ==
    IF \E i \in DOMAIN decoded.outlets : decoded.outlets[i].id = outletId
    THEN [id |-> outletId, ver |-> res.ver]
    ELSE [id |-> decoded.outlets[1].id, ver |-> res.ver]

\* outlets.find(({ id }) => id === outletId) ?? null on the snapshot that
\* getStatus() returned (NoData is null).
OutletOf(res, outletId) ==
    IF \E i \in DOMAIN decoded.outlets : decoded.outlets[i].id = outletId
    THEN [id |-> outletId, ver |-> res.ver]
    ELSE NoData

\* getOutletStatus(outletId) once its getStatus() has settled with `res`: the
\* error of getStatus(), the unknown-outlet error, or the snapshot res whose
\* record OutletOf gives.
getOutletStatus(res, outletId) ==
    IF ~res.ok THEN res
    ELSE IF OutletOf(res, outletId) = NoData THEN Err("unknown-outlet")
    ELSE res

\* The status in an outlet's record: each command of the model switches the
\* outlets to the other state.
StatusOf(dev, data) == IF data.ver % 2 = 0 THEN dev ELSE ON + OFF - dev

\* --------------------------------------------------------------- accessories
\* made: the accessory has been constructed; status: its status field; on:
\* what the last getOn() gave, "" before any; set: how the last setOn()
\* ended, "" before any and "pending" while its command is open; push: the
\* value the callback gave updateValue() when it was last called, "" when it
\* did not call it.
NoAccessory == [made |-> FALSE, status |-> UNKNOWN, on |-> "", set |-> "", push |-> ""]

\* The callback the accessory subscribes with: the status is stored when it
\* differs from the stored one.
OnUpdate(status, data) ==
    IF status # StatusOf(device, data) THEN StatusOf(device, data) ELSE status

PushedAlways(status, data) == IF StatusOf(device, data) # 0 THEN "true" ELSE "false"

\* The callback the accessory subscribes with: updateValue(!!status) is
\* called when the status differs from the stored one.
Pushed(status, data) ==
    IF status # StatusOf(device, data)
    THEN IF StatusOf(device, data) # 0 THEN "true" ELSE "false"
    ELSE ""

getOnFirstRevision(status) == IF status # 0 THEN "true" ELSE "false"

\* getOn(): the error for an UNKNOWN status, else !!status.
getOn(status) ==
    IF status = UNKNOWN THEN "NOT_ALLOWED_IN_CURRENT_STATE"
    ELSE IF status # 0 THEN "true" ELSE "false"

\* ------------------------------------------------------------ disable switch
\* timeout: context.timeout, in seconds; disabled: the flag; on: the value of
\* the On characteristic as last set, updated or read ("" before);  timers:
\* the time left of each pending setTimeout; since: history, for how long
\* control has been enabled since On was last set to off; by: history, what
\* assigned the flag last, a set of the characteristic or a timer.
NewSwitch(timeout) ==
    [timeout |-> timeout, disabled |-> TRUE, on |-> "", timers |-> {}, since |-> 0,
     by |-> ""]

SinceCap(timeout) == Max(timeout, 0) * 1000 + TickMs

\* !!value and the characteristic's value for it.
Flag(value) == IF value THEN "true" ELSE "false"

TimerDelayFromZero(timeout) == IF timeout >= 0 THEN {timeout * 1000} ELSE {}

TimerDelayInMs(timeout) == IF timeout > 0 THEN {timeout} ELSE {}

\* setOn: the delay of the timer that is started when control is enabled.
TimerDelay(timeout) == IF timeout > 0 THEN {timeout * 1000} ELSE {}

\* setOn(value) of the switch.
setSwitchOn(sw, value) ==
    [sw EXCEPT !.disabled = value,
               !.on = Flag(value),
               !.timers = IF ~value THEN @ \cup TimerDelay(sw.timeout) ELSE @,
               !.since = 0,
               !.by = "set"]

\* The callback of the timer: nothing when control has been disabled again,
\* else the flag is set and the characteristic updated.
OnSwitchTimeout(sw) ==
    IF sw.disabled THEN sw
    ELSE [sw EXCEPT !.disabled = TRUE, !.on = Flag(TRUE), !.since = 0, !.by = "timer"]

\* isDisabled() of the switch.
isDisabled(sw) == sw.disabled

\* The outlet filter and the accessories of the platform, before discovery.
NoPlatform == [includeOutlets |-> [array |-> FALSE, names |-> {}],
               excludeOutlets |-> [array |-> FALSE, names |-> {}],
               st |-> "new", accessories |-> {}, discovered |-> {},
               registered |-> {}, updated |-> {}, unregistered |-> {}]

\* The caller of getStatus() in discoverDevices.
Discoverer == [kind |-> "discover", id |-> 0]

\* The names the outlets of the device and the lists of the config are
\* taken from.
OutletNames == {<<"A">>, <<"B">>}

\* A value of config.includeOutlets / config.excludeOutlets: not an array
\* (not set, null), or an array of names.
OutletLists ==
    {[array |-> FALSE, names |-> {}]}
    \cup {[array |-> TRUE, names |-> names] : names \in SUBSET OutletNames}

\* information.serialNumber of the snapshot, and the string the UUID of an
\* outlet's accessory is generated from.
SerialNumber == <<"S">>
AccessoryId(serialNumber, id) == serialNumber \o <<":">> \o id

\* hap.uuid.generate(data): one UUID per string.
generate(data) == [uuid |-> data]

SkipsIncludeFirst(plat, name) ==
    IF plat.includeOutlets.array
    THEN name \notin plat.includeOutlets.names
    ELSE plat.excludeOutlets.array /\ name \in plat.excludeOutlets.names

\* The two tests of the loop of discoverDevices that `continue`.
Skips(plat, name) ==
    \/ plat.excludeOutlets.array /\ name \in plat.excludeOutlets.names
    \/ plat.includeOutlets.array /\ name \notin plat.includeOutlets.names

\* includeOutlets / excludeOutlets as the configuration schema defaults
\* them: "default": [].
SchemaDefault == [array |-> TRUE, names |-> {}]

\* subscribe(outletId, func) of the constructor of the accessory `token`, on
\* the subscriptions and loops in `d`: the first subscription of the topic
\* starts a poll loop.
SubscribeIn(d, token, outletId) ==
    LET topic == outletStatusTopic(outletId)
        msgs == PubSubSubscribe(d.messages, topic, token)
        free == {l \in DOMAIN d.polls : d.polls[l].st = "off"}
        first == CHOOSE l \in free : \A m \in free : l.id <= m.id IN
    [d EXCEPT !.messages = msgs,
              !.polls = IF countSubscriptions(msgs, topic) = 1 /\ free # {}
                        THEN [@ EXCEPT ![first] = Timer(outletId, 0)]
                        ELSE @]

\* The loop of discoverDevices from the i-th outlet of the snapshot on: an
\* outlet that passes the tests has its cached accessory updated, or a new
\* one registered, and its outlet accessory constructed.
RECURSIVE DiscoverOutlets(_, _, _, _)
DiscoverOutlets(plat, outlets, i, d) ==
    IF i > Len(outlets) THEN d
    ELSE IF Skips(plat, outlets[i].name) THEN DiscoverOutlets(plat, outlets, i + 1, d)
    ELSE LET uuid == generate(AccessoryId(SerialNumber, outlets[i].id))
             existingAccessory == uuid \in plat.accessories
             e == [d EXCEPT !.discovered = @ \cup {uuid},
                            !.updated = IF existingAccessory THEN @ \cup {uuid} ELSE @,
                            !.registered = IF existingAccessory THEN @ ELSE @ \cup {uuid},
                            !.accessory[i] = [NoAccessory EXCEPT !.made = TRUE]]
         IN  DiscoverOutlets(plat, outlets, i + 1, SubscribeIn(e, i, outlets[i].id))

NoOrphanedAccessories(accessories, discoveredUUIDs) == {}

\* The accessories of the cache that were not discovered.
OrphanedAccessories(accessories, discoveredUUIDs) == accessories \ discoveredUUIDs

\* context.isDisabled of an outlet accessory: the platform hands every outlet
\* accessory the isDisabled() of the disable switch.
ContextIsDisabled == isDisabled(switch)

setOnUnchecked(disabled) == "pending"

\* setOn() of an outlet accessory, up to its await: the error it throws while
\* control is disabled, else "pending", commandOutlet() being called.
setOn(disabled) == IF disabled THEN "READ_ONLY_CHARACTERISTIC" ELSE "pending"

\* setOn() of an outlet accessory after its await.
setOnSettled(res) == IF res.ok THEN "ok" ELSE "SERVICE_COMMUNICATION_FAILURE"

InitCore ==
    /\ epoch = 0
    /\ lock = [k \in LockKeys |-> Free]
    /\ cache = NoEntry
    /\ batch = NoBatch
    /\ lastFetch = NoFetch
    /\ seen = NoSeen
    /\ messages = <<>>
    /\ deliveries = <<>>
    /\ inbox = [l \in Listeners |-> Empty]
    /\ device = OFF
    /\ accessory = [t \in {} |-> NoAccessory]
    /\ response = Document(Lists(10, <<"0">>))
    /\ decoded = NoStatus
    /\ switch = NewSwitch(0)
    /\ platform = NoPlatform

\* The callers are direct callers of the API; no subscription is made.
Init ==
    /\ config \in Configs
    /\ InitCore
    /\ call = [p \in Users |-> Idle]
    /\ polls = [l \in {} |-> Off]

\* The callers are the poll loops of the subscribed topics.
InitPoll ==
    /\ config \in Configs
    /\ InitCore
    /\ call = [p \in Loops |-> Idle]
    /\ polls = [l \in Loops |-> Off]

\* The listeners are outlet accessories, the device in either state.
InitAccessory ==
    /\ config \in Configs
    /\ epoch = 0
    /\ lock = [k \in LockKeys |-> Free]
    /\ cache = NoEntry
    /\ batch = NoBatch
    /\ lastFetch = NoFetch
    /\ seen = NoSeen
    /\ messages = <<>>
    /\ deliveries = <<>>
    /\ inbox = [l \in Listeners |-> Empty]
    /\ device \in {OFF, ON}
    /\ accessory = [t \in Listeners |-> NoAccessory]
    /\ response = Document(Lists(10, Decimal(device)))
    /\ decoded = NoStatus
    /\ switch = NewSwitch(0)
    /\ platform = NoPlatform
    /\ call = [p \in Loops |-> Idle]
    /\ polls = [l \in Loops |-> Off]

\* Direct callers, under every configuration of the cache ttl.
InitTtl ==
    /\ config \in TtlConfigs
    /\ InitCore
    /\ call = [p \in Users |-> Idle]
    /\ polls = [l \in {} |-> Off]

\* Poll loops, under every configuration of the poll interval.
InitPollInterval ==
    /\ config \in PollIntervalConfigs
    /\ InitCore
    /\ call = [p \in Loops |-> Idle]
    /\ polls = [l \in Loops |-> Off]

\* Poll loops on a device with two outlets: outlet "10" is not in its status.
InitUnknownOutlet ==
    /\ config \in Configs
    /\ epoch = 0
    /\ lock = [k \in LockKeys |-> Free]
    /\ cache = NoEntry
    /\ batch = NoBatch
    /\ lastFetch = NoFetch
    /\ seen = NoSeen
    /\ messages = <<>>
    /\ deliveries = <<>>
    /\ inbox = [l \in Listeners |-> Empty]
    /\ device = OFF
    /\ accessory = [t \in {} |-> NoAccessory]
    /\ response = Document(Lists(2, <<"0">>))
    /\ decoded = NoStatus
    /\ switch = NewSwitch(0)
    /\ platform = NoPlatform
    /\ call = [p \in Loops |-> Idle]
    /\ polls = [l \in Loops |-> Off]

\* One caller, and a device with any of the documents.
InitDecode ==
    /\ config \in Configs
    /\ epoch = 0
    /\ lock = [k \in LockKeys |-> Free]
    /\ cache = NoEntry
    /\ batch = NoBatch
    /\ lastFetch = NoFetch
    /\ seen = NoSeen
    /\ messages = <<>>
    /\ deliveries = <<>>
    /\ inbox = [l \in Listeners |-> Empty]
    /\ device = OFF
    /\ accessory = [t \in {} |-> NoAccessory]
    /\ response \in {Document(lists) : lists \in OutletDocuments \cup SiteDocuments}
    /\ decoded = NoStatus
    /\ switch = NewSwitch(0)
    /\ platform = NoPlatform
    /\ call = [p \in {User(1)} |-> Idle]
    /\ polls = [l \in {} |-> Off]

\* The timeouts of the disable switch that are tried, in seconds.
SwitchTimeouts == {0} \cup {(TickMs \div 1000) * k : k \in 1..MaxSwitchTicks}

\* The disable switch alone, with any of the timeouts.
InitSwitch ==
    /\ config \in Configs
    /\ epoch = 0
    /\ lock = [k \in LockKeys |-> Free]
    /\ cache = NoEntry
    /\ batch = NoBatch
    /\ lastFetch = NoFetch
    /\ seen = NoSeen
    /\ messages = <<>>
    /\ deliveries = <<>>
    /\ inbox = [l \in Listeners |-> Empty]
    /\ device = OFF
    /\ accessory = [t \in {} |-> NoAccessory]
    /\ response = Document(Lists(10, <<"0">>))
    /\ decoded = NoStatus
    /\ switch \in {NewSwitch(t) : t \in SwitchTimeouts}
    /\ platform = NoPlatform
    /\ call = [p \in {} |-> Idle]
    /\ polls = [l \in {} |-> Off]

\* One outlet accessory with its poll loop, and the disable switch without a
\* timeout; the callers are the loops and the setOn() of the accessory.
InitControl ==
    /\ config \in Configs
    /\ epoch = 0
    /\ lock = [k \in LockKeys |-> Free]
    /\ cache = NoEntry
    /\ batch = NoBatch
    /\ lastFetch = NoFetch
    /\ seen = NoSeen
    /\ messages = <<>>
    /\ deliveries = <<>>
    /\ inbox = [l \in Listeners |-> Empty]
    /\ device = OFF
    /\ accessory = [t \in {1} |-> NoAccessory]
    /\ response = Document(Lists(10, <<"0">>))
    /\ decoded = NoStatus
    /\ switch = NewSwitch(0)
    /\ platform = NoPlatform
    /\ call = [p \in Loops \cup {Setter(1)} |-> Idle]
    /\ polls = [l \in Loops |-> Off]

\* The documents of devices with n outlets named by OutletNames.
DiscoverDocuments ==
    UNION {{[Lists(n, <<"0">>) EXCEPT !.outlet_name = names] :
               names \in [1..n -> OutletNames]} : n \in 1..MaxOutlets}

\* The platform after its construction, with any of the include and exclude
\* lists, and a device with any of the documents; an outlet accessory may
\* be made for each of MaxOutlets outlets.
InitDiscover ==
    /\ config \in Configs
    /\ epoch = 0
    /\ lock = [k \in LockKeys |-> Free]
    /\ cache = NoEntry
    /\ batch = NoBatch
    /\ lastFetch = NoFetch
    /\ seen = NoSeen
    /\ messages = <<>>
    /\ deliveries = <<>>
    /\ inbox = [l \in Listeners |-> Empty]
    /\ device = OFF
    /\ accessory = [t \in 1..MaxOutlets |-> NoAccessory]
    /\ response \in {Document(lists) : lists \in DiscoverDocuments}
    /\ decoded = NoStatus
    /\ switch = NewSwitch(0)
    /\ platform \in {[NoPlatform EXCEPT !.includeOutlets = inc, !.excludeOutlets = exc] :
                        inc \in OutletLists, exc \in OutletLists}
    /\ call = [p \in {Discoverer} |-> Idle]
    /\ polls = [l \in {Loop(k) : k \in 1..MaxOutlets} |-> Off]

\* Direct callers, enough of them for a queue of two behind the lock.
InitQueue ==
    /\ config \in Configs
    /\ InitCore
    /\ call = [p \in Callers |-> Idle]
    /\ polls = [l \in {} |-> Off]

\* Poll loops, and one direct caller that sends the commands.
InitPollCommand ==
    /\ config \in Configs
    /\ InitCore
    /\ call = [p \in Loops \cup {User(1)} |-> Idle]
    /\ polls = [l \in Loops |-> Off]

\* ------------------------------------------------------------------ history
\* What a caller can tell apart: the snapshot, or the error.
Outcome(res) == [res EXCEPT !.age = -1, !.status = 0]

\* A getStatus() call made while no status is cached and nothing else is open
\* starts a batch; calls made before any member has finished join it (after
\* that it is sealed); a commandOutlet() made while a member is open voids it.
BatchOnGet(p) ==
    IF batch.open # {}
    THEN IF p \in batch.members \/ batch.sealed
         THEN [batch EXCEPT !.sealed = TRUE]
         ELSE [batch EXCEPT !.members = @ \cup {p}, !.open = @ \cup {p}]
    ELSE IF ~CacheHit(cache) /\ Pending = {}
    THEN [NoBatch EXCEPT !.members = {p}, !.open = {p}]
    ELSE NoBatch

BatchOnSend(p) ==
    IF p \in batch.open THEN [batch EXCEPT !.reqs = @ + 1] ELSE batch

BatchOnDone(p, res) ==
    IF p \in batch.open
    THEN [batch EXCEPT !.open = @ \ {p}, !.sealed = TRUE,
                       !.first = IF batch.first = NoRes THEN Outcome(res) ELSE @,
                       !.same = @ /\ (batch.first = NoRes \/ Outcome(res) = batch.first)]
    ELSE batch

\* The newest snapshot returned, after a call has returned `res`.
SeenOnDone(res) ==
    IF ~res.ok THEN seen
    ELSE IF ~seen.known
    THEN [NoSeen EXCEPT !.known = TRUE, !.ver = res.ver, !.age = res.age]
    ELSE IF res.age < seen.age \/ (res.age = seen.age /\ res.ver > seen.ver)
    THEN [seen EXCEPT !.ver = res.ver, !.age = res.age, !.again = TRUE]
    ELSE [seen EXCEPT !.again = TRUE]

FetchedRecently ==
    /\ lastFetch.known
    /\ ~lastFetch.cmd
    /\ lastFetch.age <= outletStatusCacheTtlMs(config)

\* After the time step: ages grow, and stop growing once past the ttl.
Aged(age, ttl) == IF age + TickMs > ttl THEN ttl + 1 ELSE age + TickMs

\* ------------------------------------------------------------------ actions
\* Promise continuations (the next lock holder's cache.wrap, a caller's await)
\* run before the next I/O event, timer or caller.
MicrotasksPending == \E p \in Procs : call[p].st \in {"run", "done"}

\* getStatus(): lock.acquire(OUTLET_STATUS_LOCK, () => cache.wrap(...)).
getStatus(p) ==
    LET k == GetStatusLockKey IN
    /\ call[p].st = "idle"
    /\ lock' = Acquire(lock, k, p)
    /\ call' = [call EXCEPT ![p] =
                  [Idle EXCEPT !.op = "get",
                               !.st = IF IsLocked(lock, k) THEN "queued" ELSE "run",
                               !.after = OpenCommands,
                               !.minVer = epoch]]
    /\ batch' = BatchOnGet(p)

\* commandOutlet(): lock.acquire(OUTLET_STATUS_LOCK, () => xmlRequest; cache.del).
commandOutlet(p) ==
    LET k == CommandOutletLockKey IN
    /\ call[p].st = "idle"
    /\ epoch + Cardinality(OpenCommands) < MaxCommands
    /\ lock' = Acquire(lock, k, p)
    /\ call' = [call EXCEPT ![p] =
                  [Idle EXCEPT !.op = "cmd",
                               !.st = IF IsLocked(lock, k) THEN "queued" ELSE "inflight",
                               !.sent = ~IsLocked(lock, k),
                               !.tries = IF IsLocked(lock, k) THEN 0 ELSE 1]]
    /\ batch' = IF batch.open # {} THEN [batch EXCEPT !.void = TRUE] ELSE batch

UserGetStatus(p) ==
    /\ ~MicrotasksPending
    /\ getStatus(p)
    /\ UNCHANGED <<config, epoch, cache, lastFetch, seen, pubsubVars, accessoryVars, documentVars, hostVars>>

UserCommandOutlet(p) ==
    /\ ~MicrotasksPending
    /\ commandOutlet(p)
    /\ UNCHANGED <<config, epoch, cache, lastFetch, seen, pubsubVars, accessoryVars, documentVars, hostVars>>

\* cache.wrap under the lock: a hit returns the entry and releases the lock; a
\* miss (a stale entry is deleted by the get) sends the status request.
Wrap(p) ==
    LET k == GetStatusLockKey IN
    /\ call[p].op = "get"
    /\ call[p].st = "run"
    /\ IF CacheHit(cache)
       THEN LET res == Ok(cache.ver, cache.age) IN
            /\ lock' = Release(lock, k)
            /\ call' = Finished(call, p, res, NextOwner(lock, k))
            /\ batch' = BatchOnDone(p, res)
            /\ seen' = SeenOnDone(res)
            /\ cache' = cache
       ELSE /\ cache' = NoEntry
            /\ call' = [call EXCEPT ![p].st = "inflight", ![p].sent = TRUE,
                                    ![p].tries = @ + 1,
                                    ![p].early = FetchedRecently,
                                    ![p].from = epoch]
            /\ batch' = BatchOnSend(p)
            /\ seen' = seen
            /\ lock' = lock
    /\ UNCHANGED <<config, epoch, lastFetch, pubsubVars, accessoryVars, documentVars, hostVars>>

\* The socket of a status request ends or fails: the fetch function returns
\* the decoded snapshot, wrap stores it, and the lock is released.  The
\* snapshot shows the device as it was at some moment between the sending of
\* the request and the response.
RespondStatus(p, r) ==
    LET k == GetStatusLockKey
        e == FetchStatus(r) IN
    /\ ~MicrotasksPending
    /\ call[p].op = "get"
    /\ call[p].st = "inflight"
    /\ \E ver \in call[p].from..epoch :
         LET res == IF e = "" THEN Ok(ver, 0) ELSE Err(e) IN
         /\ cache' = IF e = "" THEN Entry(ver, outletStatusCacheTtlMs(config))
                     ELSE CacheAfterFetchError(cache, e)
         /\ call' = Finished(call, p, res, NextOwner(lock, k))
         /\ batch' = BatchOnDone(p, res)
         /\ seen' = SeenOnDone(res)
    /\ lastFetch' = IF e = "" THEN [lastFetch EXCEPT !.known = TRUE, !.age = 0, !.cmd = FALSE]
                    ELSE lastFetch
    /\ lock' = Release(lock, k)
    /\ decoded' = IF Decoding(r) THEN DecodeStatus(response.request) ELSE decoded
    /\ UNCHANGED <<config, epoch, pubsubVars, accessoryVars, response, hostVars>>

\* The socket of a command request ends or fails; on success the cached
\* status is deleted before the lock is released.
RespondCommand(p, r) ==
    LET k == CommandOutletLockKey
        e == xmlRequest(r)
        ver == IF e = "" THEN epoch + 1 ELSE epoch
        res == [(IF e = "" THEN Ok(ver, 0) ELSE Err(e)) EXCEPT !.status = StatusCode(r)]
        c == Finished(call, p, res, NextOwner(lock, k)) IN
    /\ ~MicrotasksPending
    /\ call[p].op = "cmd"
    /\ call[p].st = "inflight"
    /\ epoch' = ver
    /\ cache' = IF e = "" THEN CacheAfterCommand(cache) ELSE CacheAfterCommandError(cache)
    /\ lastFetch' = IF e = "" THEN [lastFetch EXCEPT !.cmd = TRUE] ELSE lastFetch
    /\ lock' = Release(lock, k)
    /\ call' = [q \in Procs |->
                  IF p \in c[q].after
                  THEN [c[q] EXCEPT !.after = @ \ {p},
                                    !.followed = @ \/ (e = ""),
                                    !.minVer = IF e = "" THEN ver ELSE @]
                  ELSE c[q]]
    /\ UNCHANGED <<config, batch, seen, pubsubVars, accessoryVars, documentVars, hostVars>>

\* The caller takes the result of its finished call.
Return(p) ==
    /\ p.kind = "user"
    /\ call[p].st = "done"
    /\ call' = [call EXCEPT ![p] = Idle]
    /\ batch' = IF batch.open = {} THEN NoBatch ELSE batch
    /\ UNCHANGED <<config, epoch, lock, cache, lastFetch, seen, pubsubVars, accessoryVars, documentVars, hostVars>>

\* lru-cache's ttlAutopurge timer removes the stale entry.
Purge ==
    /\ ~MicrotasksPending
    /\ cache.present
    /\ IsStale(cache)
    /\ cache' = NoEntry
    /\ UNCHANGED <<config, epoch, lock, call, batch, lastFetch, seen, pubsubVars, accessoryVars, documentVars, hostVars>>

\* Time passes, once the timers that are due have run.
Tick ==
    /\ ~MicrotasksPending
    /\ ~TimersDue
    /\ cache' = IF cache.present THEN [cache EXCEPT !.age = Aged(@, cache.ttl)] ELSE cache
    /\ lastFetch' = IF lastFetch.known
                    THEN [lastFetch EXCEPT !.age = Aged(@, outletStatusCacheTtlMs(config))]
                    ELSE lastFetch
    /\ seen' = IF seen.known
               THEN [seen EXCEPT !.age = Aged(@, outletStatusCacheTtlMs(config))]
               ELSE seen
    /\ polls' = [l \in DOMAIN polls |->
                   IF polls[l].st = "timer"
                   THEN [polls[l] EXCEPT !.rem = Max(0, @ - TickMs)]
                   ELSE polls[l]]
    /\ switch' = [switch EXCEPT !.timers = {Max(0, rem - TickMs) : rem \in switch.timers},
                                !.since = IF switch.disabled THEN 0
                                          ELSE Min(@ + TickMs, SinceCap(switch.timeout))]
    /\ UNCHANGED <<config, epoch, lock, call, batch, messages, deliveries, inbox, accessoryVars, documentVars, platform>>

\* subscribe(outletId, func): the first subscription of the topic starts a
\* poll loop with setTimeout(poll, 0).
subscribe(token, outletId) ==
    LET topic == outletStatusTopic(outletId)
        msgs == PubSubSubscribe(messages, topic, token)
        start == countSubscriptions(msgs, topic) = 1 IN
    /\ ~MicrotasksPending
    /\ token \notin Subscribed
    /\ start => FreeSlots # {}
    /\ messages' = msgs
    /\ inbox' = [inbox EXCEPT ![token] = Empty]
    /\ polls' = IF start
                THEN LET k == CHOOSE i \in FreeSlots : \A j \in FreeSlots : i <= j
                     IN  [polls EXCEPT ![Loop(k)] = Timer(outletId, 0)]
                ELSE polls
    /\ UNCHANGED <<coreVars, deliveries>>

\* subscribe() called with a plain callback.
Subscribe(token, outletId) ==
    /\ subscribe(token, outletId)
    /\ UNCHANGED <<accessoryVars, documentVars, hostVars>>

\* new WattBoxOutletPlatformAccessory(...): status starts UNKNOWN and the
\* constructor subscribes to the accessory's outlet.
NewAccessory(token, outletId) ==
    /\ token \in DOMAIN accessory
    /\ subscribe(token, outletId)
    /\ accessory' = [accessory EXCEPT ![token] = [NoAccessory EXCEPT !.made = TRUE]]
    /\ UNCHANGED <<device, documentVars, hostVars>>

\* The On characteristic of an accessory is read.
GetOn(token) ==
    /\ ~MicrotasksPending
    /\ token \in DOMAIN accessory
    /\ accessory[token].made
    /\ accessory' = [accessory EXCEPT ![token].on = getOn(accessory[token].status)]
    /\ UNCHANGED <<coreVars, pubsubVars, device, documentVars, hostVars>>

\* The On characteristic of an outlet accessory is set: setOn() throws while
\* control is disabled, else it calls commandOutlet() and awaits it.
SetOn(t) ==
    /\ ~MicrotasksPending
    /\ t \in DOMAIN accessory
    /\ accessory[t].made
    /\ call[Setter(t)].st = "idle"
    /\ accessory' = [accessory EXCEPT ![t].set = setOn(ContextIsDisabled)]
    /\ IF setOn(ContextIsDisabled) = "pending"
       THEN commandOutlet(Setter(t))
       ELSE UNCHANGED <<lock, call, batch>>
    /\ UNCHANGED <<config, epoch, cache, lastFetch, seen, pubsubVars, device, documentVars, hostVars>>

\* The commandOutlet() that a setOn() awaits has settled.
SetOnReturn(t) ==
    /\ Setter(t) \in DOMAIN call
    /\ call[Setter(t)].st = "done"
    /\ accessory' = [accessory EXCEPT ![t].set = setOnSettled(call[Setter(t)].res)]
    /\ call' = [call EXCEPT ![Setter(t)] = Idle]
    /\ batch' = IF batch.open = {} THEN NoBatch ELSE batch
    /\ UNCHANGED <<config, epoch, lock, cache, lastFetch, seen, pubsubVars, device, documentVars, hostVars>>

\* unsubscribe(token)
Unsubscribe(token) ==
    /\ ~MicrotasksPending
    /\ token \in Subscribed
    /\ messages' = PubSubUnsubscribe(messages, token)
    /\ UNCHANGED <<coreVars, polls, deliveries, inbox, accessoryVars, documentVars, hostVars>>

\* The timer of a loop fires: poll() returns when the topic counts no
\* subscription, else it calls getOutletStatus(), which calls getStatus().
PollTick(l) ==
    /\ ~MicrotasksPending
    /\ polls[l].st = "timer"
    /\ polls[l].rem = 0
    /\ IF countSubscriptions(messages, outletStatusTopic(polls[l].outlet)) = 0
       THEN /\ polls' = [polls EXCEPT ![l] = Off]
            /\ UNCHANGED <<lock, call, batch>>
       ELSE /\ polls' = [polls EXCEPT ![l].st = "polling"]
            /\ getStatus(l)
    /\ UNCHANGED <<config, epoch, cache, lastFetch, seen, messages, deliveries, inbox, accessoryVars, documentVars, hostVars>>

\* The tick's getStatus() has settled: the outlet's record is published, or
\* the error logged, and the next tick is scheduled.
PollContinue(l) ==
    /\ l \in DOMAIN polls
    /\ call[l].st = "done"
    /\ deliveries' = IF getOutletStatus(call[l].res, polls[l].outlet).ok
                     THEN PubSubPublish(deliveries, messages,
                                        outletStatusTopic(polls[l].outlet),
                                        OutletOf(call[l].res, polls[l].outlet))
                     ELSE deliveries
    /\ polls' = [polls EXCEPT ![l] = Timer(polls[l].outlet, pollIntervalMs(config))]
    /\ call' = [call EXCEPT ![l] = Idle]
    /\ batch' = IF batch.open = {} THEN NoBatch ELSE batch
    /\ UNCHANGED <<config, epoch, lock, cache, lastFetch, seen, messages, inbox, accessoryVars, documentVars, hostVars>>

\* A pending delivery runs: every callback subscribed to the topic now is
\* called with the published value, and may throw; the callback of an
\* accessory stores the record's status.
Deliver ==
    /\ ~MicrotasksPending
    /\ deliveries # <<>>
    /\ LET receivers == Receivers(messages, Head(deliveries).topic) IN
       \E throwers \in SUBSET ((receivers \cap FaultyListeners) \ DOMAIN accessory) :
           /\ inbox' = [t \in Listeners |->
                          IF t \in Invoked(receivers, throwers)
                          THEN [got |-> TRUE, data |-> Head(deliveries).data,
                                threw |-> t \in throwers]
                          ELSE inbox[t]]
           /\ accessory' = [t \in DOMAIN accessory |->
                              IF t \in Invoked(receivers, throwers)
                              THEN [accessory[t] EXCEPT
                                       !.status = OnUpdate(@, Head(deliveries).data),
                                       !.push = Pushed(accessory[t].status,
                                                       Head(deliveries).data)]
                              ELSE accessory[t]]
    /\ deliveries' = Tail(deliveries)
    /\ UNCHANGED <<coreVars, messages, polls, device, documentVars, hostVars>>

\* The On characteristic of the disable switch is set.
SwitchSetOn(value) ==
    /\ ~MicrotasksPending
    /\ switch' = setSwitchOn(switch, value)
    /\ UNCHANGED <<coreVars, pubsubVars, accessoryVars, documentVars, platform>>

\* The On characteristic of the disable switch is read.
SwitchGetOn ==
    /\ ~MicrotasksPending
    /\ switch' = [switch EXCEPT !.on = Flag(isDisabled(switch))]
    /\ UNCHANGED <<coreVars, pubsubVars, accessoryVars, documentVars, platform>>

\* A timer of the disable switch fires.
SwitchTimeout ==
    /\ ~MicrotasksPending
    /\ 0 \in switch.timers
    /\ switch' = [OnSwitchTimeout(switch) EXCEPT !.timers = @ \ {0}]
    /\ UNCHANGED <<coreVars, pubsubVars, accessoryVars, documentVars, platform>>

DiscoveryGoingOn(plat, res, d) ==
    IF res.ok
    THEN [plat EXCEPT !.st = "discovered",
                      !.discovered = d.discovered,
                      !.updated = d.updated,
                      !.registered = d.registered,
                      !.unregistered = OrphanedAccessories(plat.accessories, d.discovered)]
    ELSE [plat EXCEPT !.st = "failed",
                      !.unregistered = OrphanedAccessories(plat.accessories, {})]

\* What discoverDevices leaves of the platform: `d` is what its loop does
\* with the outlets of the snapshot; a getStatus() that rejects makes the
\* await throw, and nothing after it runs.
Discovery(plat, res, d) ==
    IF res.ok
    THEN [plat EXCEPT !.st = "discovered",
                      !.discovered = d.discovered,
                      !.updated = d.updated,
                      !.registered = d.registered,
                      !.unregistered = OrphanedAccessories(plat.accessories, d.discovered)]
    ELSE [plat EXCEPT !.st = "failed"]

\* configureAccessory(accessory): homebridge hands over an accessory of its
\* cache, before the launch has finished.
ConfigureAccessory(uuid) ==
    /\ platform.st = "new"
    /\ uuid \notin platform.accessories
    /\ platform' = [platform EXCEPT !.accessories = @ \cup {uuid}]
    /\ UNCHANGED <<coreVars, pubsubVars, accessoryVars, documentVars, switch>>

\* DID_FINISH_LAUNCHING: discoverDevices() starts and awaits getStatus().
DidFinishLaunching ==
    /\ ~MicrotasksPending
    /\ platform.st = "new"
    /\ getStatus(Discoverer)
    /\ platform' = [platform EXCEPT !.st = "discovering"]
    /\ UNCHANGED <<config, epoch, cache, lastFetch, seen, pubsubVars, accessoryVars, documentVars, switch>>

\* discoverDevices() after its await: a rejected getStatus() ends it; else
\* the outlets of the snapshot are gone through, and the accessories of the
\* cache that were not discovered are unregistered.
discoverDevices ==
    LET d == DiscoverOutlets(platform, decoded.outlets, 1,
                             [discovered |-> {}, updated |-> {}, registered |-> {},
                              accessory |-> accessory, messages |-> messages,
                              polls |-> polls]) IN
    /\ platform.st = "discovering"
    /\ call[Discoverer].st = "done"
    /\ call' = [call EXCEPT ![Discoverer] = Idle]
    /\ batch' = IF batch.open = {} THEN NoBatch ELSE batch
    /\ platform' = Discovery(platform, call[Discoverer].res, d)
    /\ IF call[Discoverer].res.ok
       THEN /\ accessory' = d.accessory
            /\ messages' = d.messages
            /\ polls' = d.polls
       ELSE UNCHANGED <<accessory, messages, polls>>
    /\ UNCHANGED <<config, epoch, lock, cache, lastFetch, seen, deliveries, inbox, device, documentVars, switch>>

Next ==
    \/ \E p \in Users : UserGetStatus(p)
    \/ \E p \in Users : UserCommandOutlet(p)
    \/ \E p \in Procs : Wrap(p)
    \/ \E p \in Procs, r \in Responses : RespondStatus(p, r)
    \/ \E p \in Procs, r \in Responses : RespondCommand(p, r)
    \/ \E p \in Users : Return(p)
    \/ Purge
    \/ Tick

Spec == Init /\ [][Next]_vars

\* The same callers under the scheduling of the event loop: a promise
\* continuation that is ready runs, a caller takes a settled result, and the
\* clock goes on.  When, and whether, the device answers is up to the device.
FairSpec ==
    /\ Init
    /\ [][Next]_vars
    /\ WF_vars(Tick)
    /\ \A p \in Users : WF_vars(Wrap(p)) /\ WF_vars(Return(p))

NextPoll ==
    \/ \E t \in Listeners, o \in OutletIds : Subscribe(t, o)
    \/ \E t \in Listeners : Unsubscribe(t)
    \/ \E l \in Loops : PollTick(l)
    \/ \E l \in Loops : PollContinue(l)
    \/ \E p \in Procs : Wrap(p)
    \/ \E p \in Procs, r \in Responses : RespondStatus(p, r)
    \/ Deliver
    \/ Purge
    \/ Tick

PollSpec == InitPoll /\ [][NextPoll]_vars

NextAccessory ==
    \/ \E t \in Listeners, o \in OutletIds : NewAccessory(t, o)
    \/ \E t \in Listeners : GetOn(t)
    \/ \E l \in Loops : PollTick(l)
    \/ \E l \in Loops : PollContinue(l)
    \/ \E p \in Procs : Wrap(p)
    \/ \E p \in Procs, r \in Responses : RespondStatus(p, r)
    \/ Deliver
    \/ Purge
    \/ Tick

AccessorySpec == InitAccessory /\ [][NextAccessory]_vars

\* getStatus() calls with no time passing: what ttl the cache entry gets.
NextTtl ==
    \/ \E p \in Users : UserGetStatus(p)
    \/ \E p \in Procs : Wrap(p)
    \/ \E p \in Procs, r \in Responses : RespondStatus(p, r)
    \/ \E p \in Users : Return(p)

TtlSpec == InitTtl /\ [][NextTtl]_vars

\* The first tick of each loop: what delay the next tick is scheduled with.
NextPollInterval ==
    \/ \E t \in Listeners, o \in OutletIds : Subscribe(t, o)
    \/ \E l \in Loops : PollTick(l)
    \/ \E l \in Loops : PollContinue(l)
    \/ \E p \in Procs : Wrap(p)
    \/ \E p \in Procs, r \in Responses : RespondStatus(p, r)
    \/ Deliver

PollIntervalSpec == InitPollInterval /\ [][NextPollInterval]_vars

\* Poll loops of an outlet the device has and of one it has not.
NextUnknownOutlet ==
    \/ \E t \in Listeners, o \in OutletIds : Subscribe(t, o)
    \/ \E l \in Loops : PollTick(l)
    \/ \E l \in Loops : PollContinue(l)
    \/ \E p \in Procs : Wrap(p)
    \/ \E p \in Procs, r \in Responses : RespondStatus(p, r)
    \/ Deliver
    \/ Tick

UnknownOutletSpec == InitUnknownOutlet /\ [][NextUnknownOutlet]_vars

\* getStatus() calls of one caller: what the document is decoded to.
NextDecode ==
    \/ \E p \in Procs : UserGetStatus(p)
    \/ \E p \in Procs : Wrap(p)
    \/ \E p \in Procs, r \in Responses : RespondStatus(p, r)
    \/ \E p \in Procs : Return(p)

DecodeSpec == InitDecode /\ [][NextDecode]_vars

\* The disable switch: sets and reads of its characteristic, and its timers.
NextSwitch ==
    \/ \E value \in BOOLEAN : SwitchSetOn(value)
    \/ SwitchGetOn
    \/ SwitchTimeout
    \/ Tick

SwitchSpec == InitSwitch /\ [][NextSwitch]_vars

\* An outlet accessory that is set while the disable switch is turned on
\* and off, and its poll loop.
NextControl ==
    \/ \E t \in Listeners, o \in OutletIds : NewAccessory(t, o)
    \/ \E t \in Listeners : SetOn(t)
    \/ \E t \in Listeners : SetOnReturn(t)
    \/ \E value \in BOOLEAN : SwitchSetOn(value)
    \/ \E l \in Loops : PollTick(l)
    \/ \E l \in Loops : PollContinue(l)
    \/ \E p \in Procs : Wrap(p)
    \/ \E p \in Procs, r \in Responses : RespondStatus(p, r)
    \/ \E p \in Procs, r \in Responses : RespondCommand(p, r)
    \/ Deliver
    \/ Tick

ControlSpec == InitControl /\ [][NextControl]_vars

\* The launch of the platform: the cached accessories, then the discovery.
NextDiscover ==
    \/ \E i \in 1..MaxOutlets :
          ConfigureAccessory(generate(AccessoryId(SerialNumber, Decimal(i))))
    \/ DidFinishLaunching
    \/ \E p \in Procs : Wrap(p)
    \/ \E p \in Procs, r \in Responses : RespondStatus(p, r)
    \/ discoverDevices

DiscoverSpec == InitDiscover /\ [][NextDiscover]_vars

\* Calls that queue behind the lock, with no time passing, under the
\* scheduling of the event loop: a continuation that is ready runs and a
\* caller takes a settled result.  Whether the device answers is up to it.
NextQueue ==
    \/ \E p \in Callers : UserGetStatus(p)
    \/ \E p \in Callers : UserCommandOutlet(p)
    \/ \E p \in Callers : Wrap(p)
    \/ \E p \in Callers, r \in Responses : RespondStatus(p, r)
    \/ \E p \in Callers, r \in Responses : RespondCommand(p, r)
    \/ \E p \in Callers : Return(p)

FairQueueSpec ==
    /\ InitQueue
    /\ [][NextQueue]_vars
    /\ \A p \in Callers : WF_vars(Wrap(p)) /\ WF_vars(Return(p))

\* The answer of a device that works: the status document.
Answer == Response(FALSE, TRUE, 200, "status-xml")

\* A listener that comes and goes while a caller commands the outlets.
NextPollCommand ==
    \/ \E o \in OutletIds : Subscribe(1, o)
    \/ Unsubscribe(1)
    \/ UserCommandOutlet(User(1))
    \/ Return(User(1))
    \/ \E l \in Loops : PollTick(l)
    \/ \E l \in Loops : PollContinue(l)
    \/ \E p \in Procs : Wrap(p)
    \/ \E p \in Procs, r \in Responses : RespondStatus(p, r)
    \/ \E p \in Procs, r \in Responses : RespondCommand(p, r)
    \/ Deliver
    \/ Tick

\* The same under the scheduling of the event loop and with a device that
\* keeps answering.  A continuation that is ready runs before anything else
\* (weak fairness).  A timer that is due, a pending delivery and the clock
\* have their turn whenever the continuations have run, however often other
\* work comes in between (strong fairness), and so has the document for a
\* loop whose status requests go on; every command request is answered.
FairPollCommandSpec ==
    /\ InitPollCommand
    /\ [][NextPollCommand]_vars
    /\ SF_vars(Tick)
    /\ SF_vars(Deliver)
    /\ WF_vars(Return(User(1)))
    /\ SF_vars(\E r \in Responses : RespondCommand(User(1), r))
    /\ \A l \in Loops :
         /\ SF_vars(PollTick(l))
         /\ WF_vars(PollContinue(l))
         /\ WF_vars(Wrap(l))
         /\ SF_vars(RespondStatus(l, Answer))

\* ------------------------------------------------------------------- claims
Ttl == outletStatusCacheTtlMs(config)
GetDone(p) == call[p].op = "get" /\ call[p].st = "done"
CmdDone(p) == call[p].op = "cmd" /\ call[p].st = "done"
InFlight == {p \in Procs : call[p].st = "inflight"}

C2_OneRequestInFlight == Cardinality(InFlight) <= 1

C2_Witness ==
    \E p, q \in Procs :
        /\ call[p].st = "inflight"
        /\ call[q].st = "queued"
        /\ call[p].op # call[q].op

\* C3: a snapshot returned by a getStatus() call was fetched after every
\* successful command that was invoked before that call.
C3_ReadAfterCommand ==
    \A p \in Procs : GetDone(p) /\ call[p].res.ok => call[p].res.ver >= call[p].minVer

C3_Witness ==
    \E p \in Procs :
        /\ GetDone(p)
        /\ call[p].res.ok
        /\ call[p].followed
        /\ call[p].minVer >= 1

\* C4: no status request is sent within a ttl of the last successful fetch
\* unless a command has succeeded since, and a getStatus() call that sends no
\* request returns the cached snapshot.
C4_FreshEntryServed ==
    \A p \in Procs :
        call[p].op = "get" =>
            /\ ~call[p].early
            /\ call[p].st = "done" /\ ~call[p].sent =>
                   /\ cache.present
                   /\ call[p].res = Ok(cache.ver, cache.age)

C4_Witness ==
    \E p \in Procs : GetDone(p) /\ ~call[p].sent /\ call[p].res.ok /\ call[p].res.age > 0

\* C5: a snapshot returned by getStatus() is never older than the ttl, and a
\* failed fetch makes the call fail.
C5_NeverStale ==
    \A p \in Procs :
        GetDone(p) =>
            /\ call[p].res.ok => call[p].res.age <= Ttl
            /\ ~call[p].res.ok => call[p].sent

C5_Witness ==
    \E p \in Procs :
        /\ GetDone(p)
        /\ ~call[p].res.ok
        /\ lastFetch.known
        /\ lastFetch.age > Ttl

\* C6: a commandOutlet() that fails leaves the cache entry, its age and its
\* ttl as they were.
C6_FailedCommandKeepsCache ==
    [][\A p \in Procs :
          call[p].op = "cmd" /\ call[p].st = "inflight"
          /\ call'[p].st = "done" /\ ~call'[p].res.ok
          => cache' = cache]_vars

C6_Witness ==
    \E p \in Procs : CmdDone(p) /\ ~call[p].res.ok /\ cache.present

\* C7 as stated: a commandOutlet() whose request is answered with a 2xx
\* status completes successfully and leaves no cached status.
C7_Any2xxSucceeds ==
    \A p \in Procs :
        CmdDone(p) /\ call[p].res.status >= 200 /\ call[p].res.status < 300
        => call[p].res.ok /\ ~cache.present

\* C8: when a getStatus() call fails the cache holds no entry, and the error
\* comes from the call's own request, never from the cache.
C8_ErrorNotCached ==
    \A p \in Procs : GetDone(p) /\ ~call[p].res.ok => ~cache.present /\ call[p].sent

C8_Witness ==
    \E p, q \in Procs :
        /\ GetDone(p)
        /\ ~call[p].res.ok
        /\ call[q].op = "get"
        /\ call[q].st = "run"

\* C9 as stated: for each outlet topic at most one poll loop is active at any
\* time, whatever the interleaving of subscribe, unsubscribe and ticks.
C9_OneLoopPerTopic ==
    \A o \in OutletIds : Cardinality(ActiveLoops(o)) <= 1

\* C10 as stated: once subscribe() has raised a topic's listener count from 0
\* to 1 a poll loop of that topic is running, so that a listener of a topic
\* is always served by a loop that publishes the outlet's record to it.
C10_ListenerHasLoop ==
    \A o \in OutletIds :
        TokensOf(messages, outletStatusTopic(o)) # {} => ActiveLoops(o) # {}

\* C11 as stated: once the last listener of a topic is unsubscribed and nobody
\* subscribes to it again, the first tick of the topic's loop that starts
\* afterwards sends no request and ends the loop.
C11_TickWithoutListenerEndsLoop ==
    [][\A l \in DOMAIN polls :
          /\ polls[l].st = "timer"
          /\ polls'[l].st # "timer"
          /\ TokensOf(messages, outletStatusTopic(polls[l].outlet)) = {}
          => polls'[l] = Off /\ call'[l] = call[l]]_vars

\* C12 as stated: a loop keeps ticking as long as its topic has a listener;
\* only a tick that starts while the topic has no listener ends it.
C12_LoopEndsOnlyWithoutListener ==
    [][\A l \in DOMAIN polls :
          polls[l].st # "off" /\ polls'[l].st = "off"
          => TokensOf(messages, outletStatusTopic(polls[l].outlet)) = {}]_vars

\* C13 as stated: the count that subscribe() and the poll tick read for a
\* topic is the number of listeners subscribed to exactly that topic and not
\* unsubscribed.
C13_CountIsExact ==
    \A o \in OutletIds :
        HasTopic(messages, outletStatusTopic(o)) =>
            countSubscriptions(messages, outletStatusTopic(o))
                = Cardinality(TokensOf(messages, outletStatusTopic(o)))

\* C14: a value that a tick publishes on a topic with a listener is queued for
\* one delivery, and the delivery calls every listener registered on the
\* topic with that value and no other listener.
C14_DeliveredToEveryListener ==
    [][/\ \A l \in DOMAIN polls :
             /\ polls[l].st = "polling"
             /\ polls'[l].st = "timer"
             /\ call[l].res.ok
             /\ TokensOf(messages, outletStatusTopic(polls[l].outlet)) # {}
             => deliveries' = Append(deliveries,
                                     [topic |-> outletStatusTopic(polls[l].outlet),
                                      data |-> OutletOf(call[l].res, polls[l].outlet)])
       /\ Len(deliveries') < Len(deliveries) =>
             \A t \in Listeners :
                 IF t \in TokensOf(messages, Head(deliveries).topic)
                 THEN inbox'[t].got /\ inbox'[t].data = Head(deliveries).data
                 ELSE inbox'[t] = inbox[t]]_vars

C14_Witness ==
    \E t, u \in Listeners, o \in OutletIds :
        /\ t # u
        /\ {t, u} \subseteq TokensOf(messages, outletStatusTopic(o))
        /\ inbox[t].got
        /\ inbox[u].got
        /\ inbox[t].data = inbox[u].data
        /\ inbox[t].data.id = o

\* C15 as stated: after an unsubscribe every other listener stays registered
\* and keeps receiving updates: a listener that stays registered on a topic
\* with a running poll loop does not lose the loop.
C15_OtherListenersKeepLoop ==
    [][\A t \in Listeners, o \in OutletIds :
          /\ t \in TokensOf(messages, outletStatusTopic(o))
          /\ t \in TokensOf(messages', outletStatusTopic(o))
          /\ \E l \in DOMAIN polls : polls[l].st # "off" /\ polls[l].outlet = o
          => \E l \in DOMAIN polls : polls'[l].st # "off" /\ polls'[l].outlet = o]_vars

C17_NoRegress ==
    [][\A p \in Procs :
          /\ call[p].op = "get"
          /\ call[p].st # "done"
          /\ call'[p].st = "done"
          /\ call'[p].res.ok
          /\ seen.known
          => /\ call'[p].res.ver >= seen.ver
             /\ call'[p].res.age <= seen.age]_vars

C17_Witness ==
    /\ seen.again
    /\ seen.ver >= 1
    /\ \E p \in Procs : GetDone(p) /\ call[p].res.ok /\ call[p].res.ver = seen.ver

\* C18 as stated: for every configured outletStatusCacheTtl v, 0 and
\* negative values included, the ttl of the cached status is
\* min(60, max(5, v)) seconds, and 15 seconds when the option is not set.
C18_TtlClampsEveryValue ==
    cache.present =>
        cache.ttl = IF config.outletStatusCacheTtl.set
                    THEN 1000 * Min(60, Max(5, config.outletStatusCacheTtl.v))
                    ELSE 15000

\* C19: for every configured outletStatusPollInterval v, 0 and negative
\* values included, a tick schedules the next one min(60000, max(5000, v)) ms
\* later, and 15000 ms later when the option is not set.
C19_PollIntervalClamps ==
    [][\A l \in DOMAIN polls :
          polls[l].st = "polling" /\ polls'[l].st = "timer"
          => polls'[l].rem = IF config.outletStatusPollInterval.set
                             THEN Min(60000, Max(5000, config.outletStatusPollInterval.v))
                             ELSE 15000]_vars

C19_Witness ==
    \E l \in DOMAIN polls :
        /\ polls[l].st = "timer"
        /\ polls[l].rem = 5000
        /\ config.outletStatusPollInterval = Num(0)

\* C20: an accessory's status is UNKNOWN from its construction until its
\* callback is first called with a published record, and every getOn() made
\* while it is UNKNOWN raises NOT_ALLOWED_IN_CURRENT_STATE.
C20_UnknownUntilFirstUpdate ==
    \A t \in DOMAIN accessory :
        accessory[t].made =>
            /\ ~inbox[t].got => accessory[t].status = UNKNOWN
            /\ inbox[t].got => accessory[t].status \in {OFF, ON}
            /\ accessory[t].status = UNKNOWN
                   => accessory[t].on \in {"", "NOT_ALLOWED_IN_CURRENT_STATE"}

C20_Witness ==
    \E t, u \in DOMAIN accessory :
        /\ accessory[t].made
        /\ accessory[t].status = UNKNOWN
        /\ accessory[t].on = "NOT_ALLOWED_IN_CURRENT_STATE"
        /\ accessory[u].status = ON
        /\ accessory[u].on = "true"

\* C21: getOutletStatus(id) for an id that is absent from the snapshot gives
\* the unknown-outlet error, and the tick of a poll loop of such an id
\* publishes nothing and schedules the next tick; no value that is published
\* or delivered is the record of an outlet other than the topic's.
C21_UnknownOutletPublishesNothing ==
    [][/\ \A l \in DOMAIN polls :
             /\ polls[l].st = "polling"
             /\ polls'[l].st = "timer"
             /\ call[l].res.ok
             /\ \A i \in DOMAIN decoded.outlets : decoded.outlets[i].id # polls[l].outlet
             => /\ getOutletStatus(call[l].res, polls[l].outlet) = Err("unknown-outlet")
                /\ deliveries' = deliveries
       /\ \A i \in DOMAIN deliveries' :
             /\ deliveries'[i].topic = outletStatusTopic(deliveries'[i].data.id)
             /\ \E j \in DOMAIN decoded.outlets :
                    decoded.outlets[j].id = deliveries'[i].data.id]_vars

C21_Witness ==
    \E l \in DOMAIN polls, t \in Listeners :
        /\ polls[l] = Timer(<<"1", "0">>, pollIntervalMs(config))
        /\ \A k \in DOMAIN polls : k # l => polls[k].st = "off"
        /\ t \in TokensOf(messages, outletStatusTopic(<<"1", "0">>))
        /\ cache.present
        /\ cache.age = 0
        /\ deliveries = <<>>
        /\ ~inbox[t].got

\* The number a text of the documents writes, and the decimal text of a
\* position.
Written(text) ==
    CASE text = <<"0">> -> 0
      [] text = <<"1">> -> 1
      [] text = <<"2">> -> 2
      [] text = <<"7">> -> 7
      [] text = <<"2", "3">> -> 23
      [] text = <<"5", "0">> -> 50
PositionText == <<<<"1">>, <<"2">>, <<"3">>, <<"4">>, <<"5">>>>

\* C22 as stated: for every status response that lists n >= 1 outlet names
\* the decoded snapshot has exactly n outlets in the reported order, the i-th
\* with id the decimal string of i, the i-th name, and the status and mode of
\* the i-th entries of the status and mode lists.
C22_OutletsDecodedInOrder ==
    decoded.tried /\ Len(response.lists.site_ip) >= 2 =>
        /\ decoded.ok
        /\ Len(decoded.outlets) = Len(response.lists.outlet_name)
        /\ \A i \in 1..Len(response.lists.outlet_name) :
               decoded.outlets[i] =
                   [id |-> PositionText[i],
                    name |-> response.lists.outlet_name[i],
                    status |-> Written(response.lists.outlet_status[i]),
                    mode |-> Written(response.lists.outlet_method[i])]

\* The positions of the addresses that are not "0", and the k-th of them.
SitePositions == {i \in 1..Len(response.lists.site_ip) : response.lists.site_ip[i] # <<"0">>}
SitePosition(k) ==
    CHOOSE i \in SitePositions : Cardinality({j \in SitePositions : j <= i}) = k

\* C30: the decoded connection list has, in order, one entry for each
\* position i whose address is not "0", with the i-th address, the i-th
\* response time and the i-th timeout percentage.
C30_ConnectionsZippedThenFiltered ==
    decoded.ok =>
        /\ Len(decoded.connections) = Cardinality(SitePositions)
        /\ \A k \in 1..Len(decoded.connections) :
               decoded.connections[k] =
                   [targetIp |-> response.lists.site_ip[SitePosition(k)],
                    responseTimeMs |-> Written(response.lists.connect_status[SitePosition(k)]),
                    timeoutPercent |-> Written(response.lists.site_lost[SitePosition(k)])]

C30_Witness ==
    /\ decoded.ok
    /\ Len(response.lists.site_ip) = 3
    /\ response.lists.site_ip[1] # <<"0">>
    /\ response.lists.site_ip[2] = <<"0">>
    /\ response.lists.site_ip[3] # <<"0">>
    /\ response.lists.connect_status[2] # response.lists.connect_status[3]
    /\ response.lists.site_lost[2] # response.lists.site_lost[3]
    /\ Len(decoded.connections) = 2
    /\ decoded.connections[2].responseTimeMs = Written(response.lists.connect_status[3])

\* C23 as stated: a request that fails with a connection-level error is
\* retried, up to 3 times, so a getStatus() or commandOutlet() call that
\* completes with that error has sent more than one request.
C23_ConnectionErrorIsRetried ==
    \A p \in Procs :
        call[p].st = "done" /\ call[p].res.err = "socket" => call[p].tries > 1

\* C29: a status response whose body cannot be decoded makes the getStatus()
\* call fail after the one request it sent, and leaves the cache without an
\* entry.
C29_UndecodableFailsOnce ==
    [][\A p \in Procs :
          /\ call[p].op = "get"
          /\ call[p].st = "inflight"
          /\ call'[p].st = "done"
          /\ call'[p].res.err \in {"xml-parse", "decode"}
          => /\ ~call'[p].res.ok
             /\ call'[p].tries = 1
             /\ \A q \in Procs : call'[q].op = "get" => call'[q].st # "inflight"
             /\ ~cache'.present]_vars

C29_Witness ==
    \E p \in Procs :
        /\ GetDone(p)
        /\ call[p].res.err = "decode"
        /\ call[p].tries = 1
        /\ lastFetch.known
        /\ ~cache.present

\* C24 as stated: every getStatus() and commandOutlet() call eventually
\* completes with a result or an error, also when the device accepts the
\* connection and never answers, so that the lock is released and the callers
\* queued behind it are served.
C24_EveryCallCompletes ==
    \A p \in Users :
        (call[p].st \in {"queued", "run", "inflight"}) ~> (call[p].st = "done")

\* C26: while control is enabled with a timeout greater than 0, the timer
\* started when On was last set to off is pending and fires when the timeout
\* has elapsed since; a timer that fires leaves control disabled; and the
\* value of the On characteristic, once set, updated or read, equals the
\* disabled flag.
C26_ReDisabledAfterTimeout ==
    [][/\ ~switch.disabled /\ switch.timeout > 0 =>
             /\ switch.since <= switch.timeout * 1000
             /\ (switch.timeout * 1000 - switch.since) \in switch.timers
       /\ 0 \in switch.timers /\ 0 \notin switch'.timers =>
             switch'.disabled /\ switch'.on = "true"
       /\ switch.on # "" => switch.on = Flag(switch.disabled)
       /\ switch'.on # "" => switch'.on = Flag(switch'.disabled)]_vars

C26_Witness ==
    /\ switch.timeout = 10
    /\ switch.by = "timer"
    /\ switch.disabled
    /\ switch.on = "true"
    /\ switch.timers = {}

\* C25 as stated: the disable switch starts on; a setOn() of an outlet
\* accessory made while the switch is on ends with READ_ONLY_CHARACTERISTIC
\* and sends no command, and a command request is sent to the device only
\* while the switch is off.
C25_CommandsSentOnlyWhileOff ==
    [][/\ switch.by = "" => isDisabled(switch)
       /\ \A t \in DOMAIN accessory :
            /\ (call[Setter(t)].st = "idle" /\ accessory'[t].set # accessory[t].set
                                           /\ isDisabled(switch))
                 => /\ accessory'[t].set = "READ_ONLY_CHARACTERISTIC"
                    /\ call' = call
            /\ (~call[Setter(t)].sent /\ call'[Setter(t)].sent)
                 => ~isDisabled(switch)]_vars

\* C25 amended: the disable switch starts on; a setOn() of an outlet
\* accessory made while the switch is on ends with READ_ONLY_CHARACTERISTIC
\* and calls no commandOutlet(); a commandOutlet() is called only by a
\* setOn() made while the switch is off (its request is sent when the lock
\* is acquired, whatever the switch is then).
C25_DisabledControlRejectsSetOn ==
    [][/\ switch.by = "" => isDisabled(switch)
       /\ \A t \in DOMAIN accessory :
            /\ (call[Setter(t)].st = "idle" /\ accessory'[t].set # accessory[t].set)
                 => IF isDisabled(switch)
                    THEN /\ accessory'[t].set = "READ_ONLY_CHARACTERISTIC"
                         /\ call' = call
                         /\ lock' = lock
                    ELSE /\ accessory'[t].set = "pending"
                         /\ call'[Setter(t)].op = "cmd"
            /\ (call[Setter(t)].st = "idle" /\ call'[Setter(t)].st # "idle")
                 => ~isDisabled(switch)]_vars

\* A setOn() was rejected while the switch had been turned on again, after
\* an earlier one had its command executed by the device.
C25_Witness ==
    /\ accessory[1].set = "READ_ONLY_CHARACTERISTIC"
    /\ call[Setter(1)].st = "idle"
    /\ isDisabled(switch)
    /\ switch.by = "set"
    /\ epoch >= 1

\* C28 as stated: after a command has succeeded, a listener of an outlet's
\* topic that stays subscribed eventually receives a record of the outlet
\* fetched after that command, the device answering.
C28_ListenerReceivesPostCommandRecord ==
    \A t \in Listeners, o \in OutletIds, v \in 1..MaxCommands :
        (epoch = v /\ t \in TokensOf(messages, outletStatusTopic(o)))
            ~> \/ t \notin TokensOf(messages, outletStatusTopic(o))
               \/ /\ inbox[t].got
                  /\ inbox[t].data.id = o
                  /\ inbox[t].data.ver >= v

\* The outlets of the device's document whose accessory was updated or
\* registered and whose outlet accessory was made.
ExposedOutlets ==
    {i \in 1..Len(response.lists.outlet_name) :
        /\ accessory[i].made
        /\ generate(AccessoryId(SerialNumber, Decimal(i)))
               \in platform.updated \cup platform.registered}

\* C27: once discoverDevices has gone through a fetched status, an outlet is
\* exposed exactly when its name is not in excludeOutlets and, includeOutlets
\* being configured (an array), is in includeOutlets; an outlet whose name
\* is in both lists is not exposed.
C27_ExposedIffNotExcludedAndIncluded ==
    platform.st = "discovered" =>
        \A i \in 1..Len(response.lists.outlet_name) :
            LET name == response.lists.outlet_name[i] IN
            /\ i \in ExposedOutlets
                  <=> /\ name \notin platform.excludeOutlets.names
                      /\ platform.includeOutlets.array
                            => name \in platform.includeOutlets.names
            /\ (name \in platform.excludeOutlets.names
                   /\ name \in platform.includeOutlets.names)
                  => /\ ~accessory[i].made
                     /\ generate(AccessoryId(SerialNumber, Decimal(i)))
                            \notin platform.updated \cup platform.registered

\* A discovery, with both lists configured, that exposed an outlet and left
\* out another whose name is in both lists.
C27_Witness ==
    /\ platform.st = "discovered"
    /\ platform.includeOutlets.array
    /\ platform.excludeOutlets.array
    /\ ExposedOutlets # {}
    /\ \E i \in 1..Len(response.lists.outlet_name) :
          /\ response.lists.outlet_name[i] \in platform.excludeOutlets.names
          /\ response.lists.outlet_name[i] \in platform.includeOutlets.names
          /\ i \notin ExposedOutlets

\* C31: with a timeout of 0 no timer of the switch is ever pending, and
\* control that is enabled becomes disabled only by a set of the On
\* characteristic.
C31_NoTimerWithoutTimeout ==
    [][switch.timeout = 0 =>
          /\ switch.timers = {}
          /\ switch'.timers = {}
          /\ (~switch.disabled /\ switch'.disabled) => switch'.by = "set"
          /\ (~switch.disabled /\ switch'.by # "set") => ~switch'.disabled]_vars

\* Control was enabled with a timeout of 0 and has stayed so while the
\* clock went on.
C31_Witness ==
    /\ switch.timeout = 0
    /\ ~switch.disabled
    /\ switch.by = "set"
    /\ switch.since >= TickMs
    /\ switch.timers = {}

\* C32 as stated: a timer re-disables control only when the timeout has
\* fully elapsed since On was last set to off; the timer of an earlier
\* enabling never re-disables control that was disabled and enabled again
\* since.
C32_ReDisabledOnlyAfterFullTimeout ==
    [][(~switch.disabled /\ switch'.disabled /\ switch'.by = "timer")
          => switch.since >= switch.timeout * 1000]_vars

\* C33 as stated: when the call that holds the lock fails, the lock goes to
\* the call that has waited longest, which starts, the others keeping the
\* order in which they were made (the lock is free when none waits); and a
\* call that waits behind a failed one does not wait forever.
C33_QueuedCallsRunAfterFailure ==
    /\ [][\A p \in Callers :
            LET k == KeyOf(call'[p].op) IN
            /\ (call[p].st = "idle" /\ call'[p].st = "queued")
                  => lock'[k].queue = Append(lock[k].queue, p)
            /\ (call[p].st \in {"run", "inflight"} /\ call'[p].st = "done"
                                                    /\ ~call'[p].res.ok)
                  => IF lock[k].queue = <<>>
                     THEN lock'[k] = Free
                     ELSE /\ lock'[k].owner = Head(lock[k].queue)
                          /\ lock'[k].queue = Tail(lock[k].queue)
                          /\ call'[Head(lock[k].queue)].st \in {"run", "inflight"}]_vars
    /\ \A p, q \in Callers :
          (call[p].st = "done" /\ ~call[p].res.ok /\ call[q].st = "queued")
              ~> (call[q].st # "queued")

\* The UUID of the accessory of the i-th outlet.
OutletUUID(i) == generate(AccessoryId(SerialNumber, Decimal(i)))

\* C34 as stated: with includeOutlets and excludeOutlets both the empty
\* list of the schema, a discovery that has gone through a fetched status
\* has made an accessory for every outlet of the device's document and has
\* unregistered no cached accessory of these outlets.
C34_SchemaDefaultsExposeEveryOutlet ==
    (/\ platform.st = "discovered"
     /\ platform.includeOutlets = SchemaDefault
     /\ platform.excludeOutlets = SchemaDefault)
        => \A i \in 1..Len(response.lists.outlet_name) :
              /\ i \in ExposedOutlets
              /\ OutletUUID(i) \notin platform.unregistered

\* The outlets of the device's document that pass the filter of the config:
\* the name is not in excludeOutlets and, includeOutlets being an array, is
\* in includeOutlets.
PassingOutlets ==
    {i \in 1..Len(response.lists.outlet_name) :
        /\ response.lists.outlet_name[i] \notin platform.excludeOutlets.names
        /\ platform.includeOutlets.array
              => response.lists.outlet_name[i] \in platform.includeOutlets.names}

\* C35: once discoverDevices has gone through a fetched status, the
\* accessories unregistered are exactly the cached ones whose UUID is that
\* of no outlet that passed the filter; a cached accessory of an exposed
\* outlet is updated and not unregistered.
C35_OrphansAreTheUndiscovered ==
    platform.st = "discovered" =>
        /\ platform.unregistered =
               {uuid \in platform.accessories :
                   \A i \in PassingOutlets : OutletUUID(i) # uuid}
        /\ \A i \in ExposedOutlets :
               /\ OutletUUID(i) \notin platform.unregistered
               /\ OutletUUID(i) \in platform.accessories
                     => OutletUUID(i) \in platform.updated

\* A discovery that kept the cached accessory of an exposed outlet and
\* unregistered one of an outlet that is filtered out now and one of an
\* outlet that the device no longer reports.
C35_Witness ==
    /\ platform.st = "discovered"
    /\ \E i \in ExposedOutlets : OutletUUID(i) \in platform.updated
    /\ \E i \in 1..Len(response.lists.outlet_name) :
          /\ i \notin PassingOutlets
          /\ OutletUUID(i) \in platform.unregistered
    /\ \E i \in 1..MaxOutlets :
          /\ i > Len(response.lists.outlet_name)
          /\ OutletUUID(i) \in platform.unregistered

\* C36: when the getStatus() of discoverDevices has failed, no accessory
\* has been registered, updated or unregistered, no outlet accessory has
\* been made, nothing is subscribed and no poll loop runs.
C36_FailedDiscoveryChangesNothing ==
    platform.st = "failed" =>
        /\ platform.registered = {}
        /\ platform.updated = {}
        /\ platform.unregistered = {}
        /\ \A t \in DOMAIN accessory : ~accessory[t].made
        /\ Subscribed = {}
        /\ \A l \in DOMAIN polls : polls[l] = Off

\* The discovery failed with accessories in the cache.
C36_Witness ==
    /\ platform.st = "failed"
    /\ platform.accessories # {}
    /\ ~call[Discoverer].res.ok
    /\ call[Discoverer].st = "idle"

\* C37: in a delivery to an outlet accessory the On characteristic is given
\* a value exactly when the delivered status differs from the stored one,
\* the value being whether the delivered status is not OFF, and after the
\* delivery the stored status is the delivered one.
C37_PushOnlyOnChange ==
    [][\A t \in DOMAIN accessory :
          (/\ deliveries # <<>>
           /\ deliveries' = Tail(deliveries)
           /\ t \in Receivers(messages, Head(deliveries).topic))
          => LET status == StatusOf(device, Head(deliveries).data) IN
             /\ accessory'[t].status = status
             /\ accessory'[t].push # "" <=> accessory[t].status # status
             /\ accessory'[t].push # ""
                   => accessory'[t].push = (IF status = ON THEN "true" ELSE "false")]_vars

\* The accessory, whose status a command has changed to ON, was delivered
\* that status once more and gave the characteristic no value.
C37_Witness ==
    /\ accessory[1].made
    /\ accessory[1].status = ON
    /\ accessory[1].push = ""
    /\ inbox[1].got
    /\ inbox[1].data.ver = 1

\* C38: a listener's callback is only called by a delivery of the topic of
\* the outlet it is subscribed to now, and what it is called with is the
\* record of that outlet from a snapshot that getStatus() returned, never
\* the record of another outlet and never the empty value, while the other
\* outlet's topic is subscribed, unsubscribed and polled as well.
C38_ListenerGetsOwnOutletRecord ==
    [][\A t \in Listeners :
          (/\ inbox'[t].got
           /\ \/ inbox'[t] # inbox[t]
              \/ /\ deliveries # <<>>
                 /\ deliveries' = Tail(deliveries)
                 /\ t \in TokensOf(messages, Head(deliveries).topic))
          => /\ deliveries # <<>>
             /\ deliveries' = Tail(deliveries)
             /\ inbox'[t].data = Head(deliveries).data
             /\ inbox'[t].data # NoData
             /\ inbox'[t].data.id \in OutletIds
             /\ inbox'[t].data.ver \in 0..epoch
             /\ \E i \in DOMAIN decoded.outlets :
                    decoded.outlets[i].id = inbox'[t].data.id
             /\ t \in TokensOf(messages, outletStatusTopic(inbox'[t].data.id))
             /\ \A o \in OutletIds \ {inbox'[t].data.id} :
                    t \notin TokensOf(messages, outletStatusTopic(o))]_vars

\* Two listeners on the two outlets, both loops polling, and each listener
\* has been called with the record of its own outlet.
C38_Witness ==
    /\ 1 \in TokensOf(messages, outletStatusTopic(<<"1">>))
    /\ 2 \in TokensOf(messages, outletStatusTopic(<<"1", "0">>))
    /\ inbox[1].got
    /\ inbox[1].data.id = <<"1">>
    /\ inbox[2].got
    /\ inbox[2].data.id = <<"1", "0">>
    /\ Cardinality({l \in DOMAIN polls : polls[l].st # "off"}) = 2

====
